---- MODULE Spec2Model ----
(***************************************************************************)
(* Model of the journal_summary feed pipeline:                             *)
(*   core/collector.py  PaperCollector.fetch_papers / _parse_entry         *)
(*   app.py             main: the collection loop over selected journals   *)
(*   core/summarizer.py PaperSummarizer.summarize                          *)
(*   core/storage.py    PaperStorage (the deduplication store)             *)
(*                                                                         *)
(* Text is a sequence of characters (one-character or one-word strings),   *)
(* so that str.strip() and truthiness are computed, not assumed.  Time is  *)
(* counted in hours; a naive datetime is its wall-clock hour count.        *)
(***************************************************************************)
EXTENDS Integers, Sequences, FiniteSets, TLC

VARIABLES
    now,            \* datetime.now() of the run (naive wall clock, hours)
    months_back,    \* the recency window argument
    max_papers,     \* the cap argument: NoneValue or an integer
    entry,          \* SpecParse: the feed entry handed to _parse_entry
    parsed,         \* SpecParse: what _parse_entry did with it
    feed,           \* what feedparser.parse(url) gave for the last fetch
    fetched,        \* the outcome of the last fetch_papers call
    selected_journal_names, \* app.py: the multiselect's value
    journal_i,      \* app.py: position of the fetch loop in selected_journals
    all_papers,     \* app.py: the aggregate built by the fetch loop
    fetches,        \* the outcome of fetch_papers for each journal fetched
    reported,       \* the "Found N papers from <journal>" status lines
    surfaced,       \* an exception left the fetch loop
    storage,        \* PaperStorage: the persisted rows
    last_op,        \* PaperStorage: the last operation and what it returned
    queue,          \* the papers handed to the summarizer, in order
    chats,          \* what client.chat did on each summarize call so far
    summaries,      \* what summarize returned on each call so far
    summarize_raised, \* an exception left summarize
    enable_focus_filter, \* app.py: the "Enable RWD/Pharmacoepi Focus" checkbox
    filter_keywords, \* app.py: the text of the keyword text area
    ollama_api_key, \* app.py: get_secret("OLLAMA_API_KEY", "")
    session_state,  \* st.session_state: what the last complete run stored
    executed,       \* the later stages the current run has gone through
    pc              \* position of the running operation

loop_vars ==
    <<selected_journal_names, journal_i, all_papers, fetches, reported, surfaced>>

store_vars == <<storage, last_op>>

summarizer_vars == <<queue, chats, summaries, summarize_raised>>

widget_vars == <<enable_focus_filter, filter_keywords, ollama_api_key>>

run_vars == <<widget_vars, session_state, executed>>

vars ==
    <<now, months_back, max_papers, entry, parsed, feed, fetched, loop_vars,
      store_vars, summarizer_vars, run_vars, pc>>

----------------------------------------------------------------------------
(* Python values *)

\* a str object
Txt(s) == [type |-> "str", val |-> s]

\* the None object
NoneValue == [type |-> "NoneType", val |-> <<>>]

\* max_papers: an int object, or None
Cap(n) == [type |-> "int", val |-> n]
NoCap == [type |-> "NoneType", val |-> 0]

\* marks a key the feed entry does not carry (never a value of the dict)
Absent == [type |-> "absent", val |-> <<>>]

Whitespace == {" ", "\n"}

\* bool(v): the empty string, None and 0 are falsy
Truthy(v) ==
    CASE v.type = "str" -> v.val # <<>>
      [] v.type = "int" -> v.val # 0
      [] OTHER -> FALSE

\* a or b
PyOr(a, b) == IF Truthy(a) THEN a ELSE b

RECURSIVE lstrip(_)
lstrip(s) == IF s # <<>> /\ Head(s) \in Whitespace THEN lstrip(Tail(s)) ELSE s

RECURSIVE rstrip(_)
rstrip(s) ==
    IF s # <<>> /\ s[Len(s)] \in Whitespace
    THEN rstrip(SubSeq(s, 1, Len(s) - 1))
    ELSE s

\* str.strip()
strip(s) == rstrip(lstrip(s))

\* entry.get(key, default) on the feed entry's mapping
Get(e, key, default) == IF key \in DOMAIN e THEN e[key] ELSE default

----------------------------------------------------------------------------
(* Dates *)

\* timedelta(days=months_back * 30), in hours
WindowHours(m) == m * 30 * 24

\* cutoff_date = datetime.now() - timedelta(days=months_back * 30)
CutoffDate(t, m) == t - WindowHours(m)

\* a datetime object: wall-clock hours and tzinfo ("" when naive, else the
\* offset designator it was parsed with)
DateTime(w, tz) == [type |-> "datetime", wall |-> w, tzinfo |-> tz]

\* pub_date = None
NoDate == [type |-> "NoneType", wall |-> 0, tzinfo |-> ""]

\* the hour stamps that date strings of the modelled feeds spell out
HourStamps == {-2200, -1440, -744, -724, -721, -720, -719, -715, -696}

\* the UTC offsets (hours) of the offset designators of the modelled feeds
TzOffsets == [tz \in {"Z", "+09"} |-> IF tz = "Z" THEN 0 ELSE 9]

\* a date string as a feed prints it: the stamp, then an optional designator
DateStr(h, tz) == Txt(IF tz = "" THEN <<ToString(h)>> ELSE <<ToString(h), tz>>)

\* dateutil.parser.parse(s): the datetime a date string spells, or an
\* exception (ok = FALSE) for anything that is not a date string
dateutil_parse(v) ==
    LET s == strip(v.val)
        stamps == IF s = <<>> THEN {} ELSE {h \in HourStamps : ToString(h) = s[1]}
    IN  IF v.type = "str" /\ Len(s) \in {1, 2} /\ stamps # {}
           /\ (Len(s) = 2 => s[2] \in DOMAIN TzOffsets)
        THEN [ok |-> TRUE,
              dt |-> DateTime(CHOOSE h \in stamps : TRUE,
                              IF Len(s) = 2 THEN s[2] ELSE "")]
        ELSE [ok |-> FALSE, dt |-> NoDate]

\* dt.replace(tzinfo=None): the wall-clock fields are kept, the offset dropped
replace_tzinfo_None(dt) == [dt EXCEPT !.tzinfo = ""]

----------------------------------------------------------------------------
(* PaperCollector._parse_entry *)

EmptyStr == Txt(<<>>)

\* line 70: the raw date string
PubDateStr(e) == PyOr(Get(e, "published", EmptyStr), Get(e, "updated", EmptyStr))

\* faulty variant: a date exactly at the cutoff counts as too old
OlderThanCutoff_Inclusive(dt, cutoff_date) == dt.wall <= cutoff_date

\* line 77: the recency test on a parsed date
OlderThanCutoff(dt, cutoff_date) == replace_tzinfo_None(dt).wall < cutoff_date

\* faulty variant: a date string that does not parse gets the entry skipped
DateCheck_FailClosed(pub_date_str, cutoff_date) ==
    IF Truthy(pub_date_str)
    THEN LET r == dateutil_parse(pub_date_str)
         IN  [pub_date |-> r.dt, skip |-> ~r.ok \/ r.dt.wall < cutoff_date]
    ELSE [pub_date |-> NoDate, skip |-> FALSE]

\* lines 71-80: pub_date and whether the entry is skipped as too old; a
\* date string that does not parse leaves pub_date None and skips nothing
DateCheck(pub_date_str, cutoff_date) ==
    IF Truthy(pub_date_str)
    THEN LET r == dateutil_parse(pub_date_str)
         IN  IF r.ok
             THEN [pub_date |-> r.dt, skip |-> OlderThanCutoff(r.dt, cutoff_date)]
             ELSE [pub_date |-> NoDate, skip |-> FALSE]
    ELSE [pub_date |-> NoDate, skip |-> FALSE]

\* lines 84-87: the value whose .strip() becomes the abstract
AbstractValue(e) ==
    PyOr(PyOr(Get(e, "description", EmptyStr), Get(e, "summary", EmptyStr)),
         Txt(<<"No abstract available">>))

\* faulty variant: only the title is required
MissingTitleOrLink_TitleOnly(title, link) == title = <<>>

\* line 90: not title or not link
MissingTitleOrLink(title, link) == title = <<>> \/ link = <<>>

ReturnNone == [kind |-> "None"]
Raise == [kind |-> "raise"]
ReturnPaper(p) == [kind |-> "paper", paper |-> p]

\* lines 63-99: the outcome of _parse_entry(entry, cutoff_date); .strip() on
\* a value that is not a str raises AttributeError
parse_entry(e, cutoff_date) ==
    LET pub_date_str == PubDateStr(e)
        d == DateCheck(pub_date_str, cutoff_date)
        titleV == Get(e, "title", EmptyStr)
        linkV == Get(e, "link", EmptyStr)
        abstractV == AbstractValue(e)
    IN  IF d.skip THEN ReturnNone
        ELSE IF titleV.type # "str" \/ linkV.type # "str" \/ abstractV.type # "str"
        THEN Raise
        ELSE IF MissingTitleOrLink(strip(titleV.val), strip(linkV.val))
        THEN ReturnNone
        ELSE ReturnPaper([title |-> strip(titleV.val),
                          link |-> strip(linkV.val),
                          abstract |-> strip(abstractV.val),
                          published |-> PyOr(pub_date_str, Txt(<<"Unknown date">>)).val,
                          parsed_date |-> d.pub_date])

----------------------------------------------------------------------------
(* PaperCollector.fetch_papers *)

\* faulty variant: the loop breaks one paper late
CapReached_Late(papers, cap) == Truthy(cap) /\ Len(papers) > cap.val

\* line 53: max_papers and len(papers) >= max_papers
CapReached(papers, cap) == Truthy(cap) /\ Len(papers) >= cap.val

\* lines 48-54: the loop over feed.entries from entry i on; parsed_count is
\* the number of _parse_entry calls made, raised tells an exception left it
RECURSIVE scan_entries(_, _, _, _, _)
scan_entries(entries, i, papers, cutoff, cap) ==
    IF i > Len(entries)
    THEN [papers |-> papers, parsed_count |-> i - 1, raised |-> FALSE]
    ELSE LET paper == parse_entry(entries[i], cutoff)
         IN  CASE paper.kind = "raise" ->
                    [papers |-> papers, parsed_count |-> i, raised |-> TRUE]
               [] paper.kind = "paper" ->
                    LET appended == Append(papers, paper.paper)
                    IN  IF CapReached(appended, cap)
                        THEN [papers |-> appended, parsed_count |-> i,
                              raised |-> FALSE]
                        ELSE scan_entries(entries, i + 1, appended, cutoff, cap)
               [] OTHER -> scan_entries(entries, i + 1, papers, cutoff, cap)

\* lines 40-57: the body of the try block
try_body(f, t, m, cap) ==
    IF f.status = "raise"
    THEN [papers |-> <<>>, parsed_count |-> 0, raised |-> TRUE]
    ELSE scan_entries(f.entries, 1, <<>>, CutoffDate(t, m), cap)

\* faulty variant: no handler, the exception leaves fetch_papers
except_Exception_Missing(body) ==
    [papers |-> body.papers, parsed_count |-> body.parsed_count,
     raised |-> body.raised, caught |-> FALSE]

\* lines 59-61: except Exception: log and return []
except_Exception(body) ==
    IF body.raised
    THEN [papers |-> <<>>, parsed_count |-> body.parsed_count,
          raised |-> FALSE, caught |-> TRUE]
    ELSE [papers |-> body.papers, parsed_count |-> body.parsed_count,
          raised |-> FALSE, caught |-> FALSE]

\* lines 20-61: fetch_papers on the document feedparser.parse(url) gave, at
\* clock reading t
fetch_papers(f, t, m, cap) == except_Exception(try_body(f, t, m, cap))

----------------------------------------------------------------------------
(* Feed entries *)

\* the newest clock reading of the modelled runs
MaxClock == 1

Clocks == 0..MaxClock

\* the options of the "Time Period" selectbox
MonthsBackOptions == {1, 2, 3}

\* a feed entry: the mapping of the fields the feed supplied
MkEntry(t, l, p, u, pr, d, s) ==
    LET raw == [title |-> t, link |-> l, published |-> p, updated |-> u,
                prism_publicationdate |-> pr, description |-> d, summary |-> s]
    IN  [k \in {f \in DOMAIN raw : raw[f] # Absent} |-> raw[k]]

NotADate == Txt(<<"not-a-date">>)

TitleValues ==
    {Absent, EmptyStr, Txt(<<" ">>), Txt(<<" ", "T", "\n">>), NoneValue}

LinkValues == {Absent, Txt(<<"\n", " ">>), Txt(<<"L">>), Txt(<<"L", " ">>)}

PublishedValues ==
    {Absent, EmptyStr, NotADate}
    \cup {DateStr(h, "") : h \in {-2200, -1440, -744, -721, -720, -719, -696}}
    \cup {DateStr(-715, "+09"), DateStr(-724, "Z")}

UpdatedValues == {Absent, DateStr(-2200, ""), DateStr(-696, "")}

PrismValues == {Absent, DateStr(-2200, "")}

DescriptionValues == {Absent, Txt(<<" ">>), Txt(<<" ", "D">>)}

SummaryValues == {Absent, Txt(<<"\n">>), Txt(<<"S", " ">>)}

\* the entries _parse_entry is applied to
ParseEntries ==
    {MkEntry(t, l, p, u, pr, d, s) :
        t \in TitleValues, l \in LinkValues, p \in PublishedValues,
        u \in UpdatedValues, pr \in PrismValues,
        d \in DescriptionValues, s \in SummaryValues}

----------------------------------------------------------------------------
(* _parse_entry applied to one entry *)

Pending == [kind |-> "pending"]

NoEntry == MkEntry(Absent, Absent, Absent, Absent, Absent, Absent, Absent)

NoFeed == [status |-> "none", entries |-> <<>>]

NoFetch == [papers |-> <<>>, parsed_count |-> 0, raised |-> FALSE, caught |-> FALSE]

ParseIdle == entry = NoEntry /\ parsed = Pending

FetchIdle == feed = NoFeed /\ fetched = NoFetch

LoopIdle ==
    /\ selected_journal_names = {}
    /\ journal_i = 0
    /\ all_papers = <<>>
    /\ fetches = <<>>
    /\ reported = <<>>
    /\ surfaced = FALSE

NoOp == [op |-> "none"]

StoreIdle == storage = <<>> /\ last_op = NoOp

SummarizerIdle ==
    /\ queue = <<>>
    /\ chats = <<>>
    /\ summaries = <<>>
    /\ summarize_raised = FALSE

\* st.session_state before any run has stored anything
NoSession ==
    [keys |-> {}, all_papers |-> <<>>, filtered_papers |-> <<>>,
     selected_journals |-> {}, filter_enabled |-> FALSE,
     trend_all |-> NoneValue, trend_filtered |-> NoneValue]

RunIdle ==
    /\ enable_focus_filter = FALSE
    /\ filter_keywords = <<>>
    /\ ollama_api_key = <<>>
    /\ session_state = NoSession
    /\ executed = {}

InitParse ==
    /\ now \in Clocks
    /\ months_back \in MonthsBackOptions
    /\ max_papers = NoCap
    /\ entry \in ParseEntries
    /\ parsed = Pending
    /\ FetchIdle
    /\ LoopIdle
    /\ StoreIdle
    /\ SummarizerIdle
    /\ RunIdle
    /\ pc = "call"

\* paper = self._parse_entry(entry, cutoff_date)
ParseEntryCall ==
    /\ pc = "call"
    /\ parsed' = parse_entry(entry, CutoffDate(now, months_back))
    /\ pc' = "returned"
    /\ UNCHANGED <<now, months_back, max_papers, entry, feed, fetched, loop_vars,
                   store_vars, summarizer_vars, run_vars>>

NextParse == ParseEntryCall

SpecParse == InitParse /\ [][NextParse]_vars

----------------------------------------------------------------------------
(* Properties of _parse_entry (checked under SpecParse) *)

\* the field is missing, empty, or only whitespace
BlankField(e, k) ==
    \/ k \notin DOMAIN e
    \/ /\ e[k].type = "str"
       /\ \A i \in 1..Len(e[k].val) : e[k].val[i] \in Whitespace

\* the field is text with something other than whitespace in it
UsableField(e, k) == k \in DOMAIN e /\ e[k].type = "str" /\ ~BlankField(e, k)

\* the field, where the feed supplies it, is text
TextField(e, k) == k \in DOMAIN e => e[k].type = "str"

\* non-empty text without leading or trailing whitespace
Trimmed(s) == s # <<>> /\ s[1] \notin Whitespace /\ s[Len(s)] \notin Whitespace

\* the cutoff of the run
CurrentCutoff == CutoffDate(now, months_back)

\* the entry's date string and what it spells
RawDate == PubDateStr(entry)
RawDateParses == Truthy(RawDate) /\ dateutil_parse(RawDate).ok
RawDateWall == dateutil_parse(RawDate).dt.wall

C2_ExcludedIffBeforeCutoff ==
    ( /\ pc = "returned"
      /\ UsableField(entry, "title") /\ UsableField(entry, "link")
      /\ RawDateParses )
    => /\ parsed \in {ReturnNone} \/ parsed.kind = "paper"
       /\ parsed = ReturnNone <=> RawDateWall < now - months_back * 30 * 24
       /\ (months_back = 1 /\ RawDateWall = now - 31 * 24) => parsed = ReturnNone
       /\ (months_back = 1 /\ RawDateWall = now - 29 * 24) => parsed.kind = "paper"
       /\ (months_back = 1 /\ RawDateWall = now - 30 * 24) => parsed.kind = "paper"

\* an entry dated exactly at the one-month cutoff is retained
C2_Witness ==
    /\ pc = "returned"
    /\ UsableField(entry, "title") /\ UsableField(entry, "link")
    /\ months_back = 1
    /\ RawDateParses /\ RawDateWall = now - 30 * 24
    /\ parsed.kind = "paper"
    /\ parsed.paper.parsed_date.wall = CurrentCutoff

\* C3: an entry with usable title and link whose date string is absent or
\* does not parse is accepted for every cutoff, with parsed_date None.
C3_FailOpenDate ==
    ( /\ pc = "returned"
      /\ UsableField(entry, "title") /\ UsableField(entry, "link")
      /\ \/ BlankField(entry, "published") /\ BlankField(entry, "updated")
         \/ Truthy(RawDate) /\ ~dateutil_parse(RawDate).ok )
    => /\ parsed.kind = "paper"
       /\ parsed.paper.parsed_date = NoDate

\* "not-a-date" on an otherwise acceptable entry: retained, parsed_date None
C3_Witness ==
    /\ pc = "returned"
    /\ UsableField(entry, "title") /\ UsableField(entry, "link")
    /\ "published" \in DOMAIN entry /\ entry["published"] = NotADate
    /\ parsed.kind = "paper"
    /\ parsed.paper.parsed_date = NoDate
    /\ parsed.paper.published = NotADate.val

\* the first non-empty value among published, updated and
\* prism_publicationdate, empty if there is none
FirstOfThreeDates(e) ==
    PyOr(PyOr(Get(e, "published", EmptyStr), Get(e, "updated", EmptyStr)),
         Get(e, "prism_publicationdate", EmptyStr))

\* C12 (as claimed): the raw date string is the first non-empty value among
\* published, updated and prism_publicationdate, in that order; an entry that
\* carries only a prism_publicationdate older than the cutoff is rejected.
C12_PrismDateFallback ==
    pc = "returned" =>
        /\ RawDate = FirstOfThreeDates(entry)
        /\ ( /\ UsableField(entry, "title") /\ UsableField(entry, "link")
             /\ "published" \notin DOMAIN entry /\ "updated" \notin DOMAIN entry
             /\ "prism_publicationdate" \in DOMAIN entry
             /\ dateutil_parse(entry["prism_publicationdate"]).ok
             /\ dateutil_parse(entry["prism_publicationdate"]).dt.wall < CurrentCutoff )
           => parsed = ReturnNone

\* the text the claim takes for the abstract: the trimmed description if it
\* has any, otherwise the trimmed summary, otherwise the sentinel
ClaimedAbstract(e) ==
    IF UsableField(e, "description") THEN strip(e["description"].val)
    ELSE IF UsableField(e, "summary") THEN strip(e["summary"].val)
    ELSE <<"No abstract available">>

\* C13 (as claimed): the abstract of every record is the trimmed description
\* if present, otherwise the trimmed summary, otherwise "No abstract
\* available", and it is never empty, also when description or summary is
\* only whitespace.
C13_AbstractNeverEmpty ==
    (pc = "returned" /\ parsed.kind = "paper")
    => /\ parsed.paper.abstract # <<>>
       /\ parsed.paper.abstract = ClaimedAbstract(entry)

\* the absolute instant (UTC hours) of a timezone-aware datetime
Instant(dt) == dt.wall - TzOffsets[dt.tzinfo]

\* the published values that spell a timezone-aware date of the same absolute
\* instant as dt
SameInstantDates(dt) ==
    {p \in PublishedValues \ {Absent} :
        LET r == dateutil_parse(p)
        IN  r.ok /\ r.dt.tzinfo # "" /\ Instant(r.dt) = Instant(dt)}

\* C14 (as claimed): the offset of a timezone-aware date is applied before the
\* comparison with the cutoff, so two entries that differ only in how they
\* spell the same absolute instant get the same accept/reject decision.
C14_SameInstantSameDecision ==
    ( /\ pc = "returned"
      /\ UsableField(entry, "title") /\ UsableField(entry, "link")
      /\ "published" \in DOMAIN entry /\ RawDate = entry["published"]
      /\ RawDateParses /\ dateutil_parse(RawDate).dt.tzinfo # "" )
    => \A p \in SameInstantDates(dateutil_parse(RawDate).dt) :
          parse_entry([entry EXCEPT !["published"] = p], CurrentCutoff).kind
              = parsed.kind

----------------------------------------------------------------------------
(* fetch_papers applied to one feed document *)

\* the longest feed document of the modelled fetches
MaxEntries == 4

\* the largest cap of the modelled fetches
MaxCap == 2

SeqsUpTo(S, n) == UNION {[1..k -> S] : k \in 0..n}

\* padded title, recent date: accepted
EntryRecent ==
    MkEntry(Txt(<<" ", "T", "\n">>), Txt(<<"L">>), DateStr(-696, ""), Absent,
            Absent, Txt(<<" ", "D">>), Absent)

\* a date that does not parse: accepted
EntryNoDate ==
    MkEntry(Txt(<<"U">>), Txt(<<"M", " ">>), NotADate, Absent, Absent, Absent,
            Txt(<<"S", " ">>))

\* two months old: too old for a one-month window only
EntryOld ==
    MkEntry(Txt(<<"V">>), Txt(<<"N">>), Absent, DateStr(-1440, ""), Absent,
            Absent, Absent)

\* no title: rejected
EntryUntitled ==
    MkEntry(Absent, Txt(<<"O">>), DateStr(-696, ""), Absent, Absent, Absent,
            Absent)

\* a title that is not text: .strip() raises
EntryBadTitle ==
    MkEntry(NoneValue, Txt(<<"P">>), DateStr(-696, ""), Absent, Absent, Absent,
            Absent)

FeedEntries == {EntryRecent, EntryNoDate, EntryOld, EntryUntitled, EntryBadTitle}

\* feedparser.parse(url): a clean document, a document with a parse warning
\* (bozo) and whatever entries were recovered, or an exception
Feeds ==
    {[status |-> "ok", entries |-> es] : es \in SeqsUpTo(FeedEntries, MaxEntries)}
    \cup {[status |-> "bozo", entries |-> es] : es \in SeqsUpTo(FeedEntries, 1)}
    \cup {[status |-> "raise", entries |-> <<>>]}

MaxPapersValues == {NoCap} \cup {Cap(n) : n \in 0..MaxCap}

InitFetch ==
    /\ now = 0
    /\ months_back \in MonthsBackOptions
    /\ max_papers \in MaxPapersValues
    /\ feed \in Feeds
    /\ fetched = NoFetch
    /\ ParseIdle
    /\ LoopIdle
    /\ StoreIdle
    /\ SummarizerIdle
    /\ RunIdle
    /\ pc = "call"

\* papers = collector.fetch_papers(url, months_back, max_papers)
FetchPapersCall ==
    /\ pc = "call"
    /\ fetched' = fetch_papers(feed, now, months_back, max_papers)
    /\ pc' = "returned"
    /\ UNCHANGED <<now, months_back, max_papers, entry, parsed, feed, loop_vars,
                   store_vars, summarizer_vars, run_vars>>

NextFetch == FetchPapersCall

SpecFetch == InitFetch /\ [][NextFetch]_vars

----------------------------------------------------------------------------
(* Properties of fetch_papers (checked under SpecFetch) *)

\* what _parse_entry makes of each of the first n entries of the feed
RECURSIVE OutcomeSeq(_)
OutcomeSeq(n) ==
    IF n = 0 THEN <<>>
    ELSE Append(OutcomeSeq(n - 1), parse_entry(feed.entries[n], CurrentCutoff))

EntryOutcomes == OutcomeSeq(Len(feed.entries))

\* the positions of the acceptable entries
AcceptedIdx(outs) == {i \in DOMAIN outs : outs[i].kind = "paper"}

\* the position of the k-th acceptable entry
NthAccepted(acc, k) == CHOOSE i \in acc : Cardinality({j \in acc : j <= i}) = k

\* ps is an order-preserving subsequence of the records of the feed's entries
IsFeedSubsequence(ps, outs) ==
    \E f \in [1..Len(ps) -> DOMAIN outs] :
        /\ \A a, b \in 1..Len(ps) : a < b => f[a] < f[b]
        /\ \A a \in 1..Len(ps) : outs[f[a]] = ReturnPaper(ps[a])

C5_LengthAtMostCap ==
    (pc = "returned" /\ max_papers.type = "int" /\ max_papers.val >= 0)
    => /\ Len(fetched.papers) <= max_papers.val
       /\ IsFeedSubsequence(fetched.papers, EntryOutcomes)

\* an exception occurred during the fetch: feedparser.parse raised, or one of
\* the entries that were parsed raised
FetchFailed(outs) ==
    \/ feed.status = "raise"
    \/ \E i \in 1..fetched.parsed_count : outs[i] = Raise

\* C6: fetch_papers never raises; a failure while retrieving the feed or
\* while processing its entries is caught and the call returns [].
C6_FetchNeverRaises ==
    LET outs == EntryOutcomes
    IN  pc = "returned" =>
            /\ ~fetched.raised
            /\ FetchFailed(outs) => fetched.papers = <<>>
            /\ fetched.caught <=> FetchFailed(outs)

\* an accepted entry followed by one that raises: the call returns []
C6_Witness ==
    LET outs == EntryOutcomes
    IN  /\ pc = "returned"
        /\ Len(feed.entries) >= 2
        /\ outs[1].kind = "paper"
        /\ outs[2] = Raise
        /\ max_papers = NoCap
        /\ fetched.caught /\ ~fetched.raised
        /\ fetched.papers = <<>>

\* the records of the acceptable entries among the first n, in feed order
RECURSIVE AcceptedPapers(_, _)
AcceptedPapers(outs, n) ==
    IF n = 0 THEN <<>>
    ELSE IF outs[n].kind = "paper"
         THEN Append(AcceptedPapers(outs, n - 1), outs[n].paper)
         ELSE AcceptedPapers(outs, n - 1)

\* C11 (as claimed): an entry whose processing raises costs only itself: the
\* acceptable entries of the same feed, before and after it, are all returned
\* (stated for the uncapped fetch of a feed that was retrieved).
C11_EntryFailureIsolated ==
    LET outs == EntryOutcomes
    IN  (pc = "returned" /\ feed.status # "raise" /\ max_papers = NoCap)
        => fetched.papers = AcceptedPapers(outs, Len(outs))

----------------------------------------------------------------------------
(* app.py: the collection loop of main *)

\* config/journals.py: the journal list (two of its nine sources)
JOURNALS ==
    << [name |-> "Pharmacoepidemiology and Drug Safety",
        url |-> "https://onlinelibrary.wiley.com/feed/10991557/most-recent",
        category |-> "Pharmacoepidemiology"],
       [name |-> "NEJM",
        url |-> "https://www.nejm.org/action/showFeed?type=etoc&feed=rss&jc=nejm",
        category |-> "General Medical"] >>

\* get_journal_names()
get_journal_names == {JOURNALS[i].name : i \in DOMAIN JOURNALS}

\* line 290: the selected journals, in the order of JOURNALS
selected_journals ==
    SelectSeq(JOURNALS, LAMBDA j : j.name \in selected_journal_names)

\* the values of the "Max Papers per Journal" slider that are modelled: its
\* minimum and its default
MaxPapersSlider == {Cap(5), Cap(10)}

\* the longest feed document of the modelled collection runs
MaxFeedLen == 3

LoopEntries == {EntryRecent, EntryOld, EntryBadTitle}

LoopFeeds ==
    {[status |-> "ok", entries |-> es] : es \in SeqsUpTo(LoopEntries, MaxFeedLen)}
    \cup {[status |-> "raise", entries |-> <<>>]}

\* lines 307-308: paper['source'], paper['category']
StampPaper(paper, journal) ==
    [title |-> paper.title, link |-> paper.link, abstract |-> paper.abstract,
     published |-> paper.published, parsed_date |-> paper.parsed_date,
     source |-> journal.name,
     category |-> IF "category" \in DOMAIN journal THEN journal.category
                  ELSE "Other"]

\* faulty variant: a paper whose link is already in the aggregate is dropped
RECURSIVE AppendStamped_Dedup(_, _, _)
AppendStamped_Dedup(all, papers, journal) ==
    IF papers = <<>> THEN all
    ELSE AppendStamped_Dedup(
            IF \E i \in 1..Len(all) : all[i].link = Head(papers).link
            THEN all
            ELSE Append(all, StampPaper(Head(papers), journal)),
            Tail(papers), journal)

\* lines 306-309: for paper in papers: stamp it and append it to all_papers
RECURSIVE AppendStamped(_, _, _)
AppendStamped(all, papers, journal) ==
    IF papers = <<>> THEN all
    ELSE AppendStamped(Append(all, StampPaper(Head(papers), journal)),
                       Tail(papers), journal)

\* faulty variant: the loop ends at the first journal that gave no papers
NextJournal_StopOnEmpty(i, papers) ==
    IF papers = <<>> THEN Len(selected_journals) + 1 ELSE i + 1

\* line 301: for journal in selected_journals
NextJournal(i, papers) == i + 1

Init ==
    /\ now = 0
    /\ months_back \in MonthsBackOptions
    /\ max_papers \in MaxPapersSlider
    /\ selected_journal_names \in (SUBSET get_journal_names) \ {{}}
    /\ journal_i = 0
    /\ all_papers = <<>>
    /\ fetches = <<>>
    /\ reported = <<>>
    /\ surfaced = FALSE
    /\ ParseIdle
    /\ FetchIdle
    /\ StoreIdle
    /\ SummarizerIdle
    /\ RunIdle
    /\ pc = "idle"

inputs ==
    <<now, months_back, max_papers, selected_journal_names, widget_vars, entry,
      parsed, store_vars, summarizer_vars>>

\* lines 293-298: the button is pressed
PressFetch ==
    /\ pc = "idle"
    /\ pc' = "fetching"
    /\ journal_i' = 1
    /\ all_papers' = <<>>
    /\ fetches' = <<>>
    /\ reported' = <<>>
    /\ executed' = {}
    /\ UNCHANGED <<inputs, feed, fetched, surfaced, session_state>>

\* lines 301-311: one iteration of the loop over selected_journals, the feed
\* document being one of documents
FetchJournalFrom(documents) ==
    /\ pc = "fetching"
    /\ journal_i \in 1..Len(selected_journals)
    /\ \E f \in documents :
          LET journal == selected_journals[journal_i]
              papers == fetch_papers(f, now, months_back, max_papers)
          IN  /\ feed' = f
              /\ fetched' = papers
              /\ IF papers.raised
                 THEN /\ surfaced' = TRUE
                      /\ pc' = "crashed"
                      /\ UNCHANGED <<journal_i, all_papers, fetches, reported>>
                 ELSE /\ all_papers' = AppendStamped(all_papers, papers.papers, journal)
                      /\ fetches' = Append(fetches, papers)
                      /\ reported' = Append(reported,
                                        [journal |-> journal.name,
                                         found |-> Len(papers.papers)])
                      /\ journal_i' = NextJournal(journal_i, papers.papers)
                      /\ UNCHANGED <<surfaced, pc>>
    /\ UNCHANGED <<inputs, session_state, executed>>

FetchJournal == FetchJournalFrom(LoopFeeds)

\* faulty variant: st.stop() is missing, the run goes on after "No papers
\* found"
AfterNoPapers_NoStop == "fetched"

\* line 316: st.stop() ends the run
AfterNoPapers == "no_results"

\* lines 313-316: the aggregate is empty: "No papers found", st.stop()
NoPapersFound ==
    /\ pc = "fetching"
    /\ journal_i > Len(selected_journals)
    /\ all_papers = <<>>
    /\ pc' = AfterNoPapers
    /\ UNCHANGED <<inputs, feed, fetched, loop_vars, session_state, executed>>

\* line 318: the aggregate is not empty: "Fetched N papers!"
FetchComplete ==
    /\ pc = "fetching"
    /\ journal_i > Len(selected_journals)
    /\ all_papers # <<>>
    /\ pc' = "fetched"
    /\ UNCHANGED <<inputs, feed, fetched, loop_vars, session_state, executed>>

Next == PressFetch \/ FetchJournal \/ NoPapersFound \/ FetchComplete

Spec == Init /\ [][Next]_vars

----------------------------------------------------------------------------
(* Properties of the collection loop (checked under Spec) *)

\* the records fetch k returned, each carrying the name and category of the
\* k-th selected journal
TaggedRecords(k) ==
    [i \in 1..Len(fetches[k].papers) |->
        [title |-> fetches[k].papers[i].title,
         link |-> fetches[k].papers[i].link,
         abstract |-> fetches[k].papers[i].abstract,
         published |-> fetches[k].papers[i].published,
         parsed_date |-> fetches[k].papers[i].parsed_date,
         source |-> selected_journals[k].name,
         category |-> selected_journals[k].category]]

\* the tagged records of fetches 1..k, fetch after fetch
RECURSIVE Concatenation(_)
Concatenation(k) ==
    IF k = 0 THEN <<>> ELSE Concatenation(k - 1) \o TaggedRecords(k)

\* the same, leaving out the fetches that failed
RECURSIVE ConcatenationOfSound(_)
ConcatenationOfSound(k) ==
    IF k = 0 THEN <<>>
    ELSE ConcatenationOfSound(k - 1)
         \o (IF fetches[k].caught THEN <<>> ELSE TaggedRecords(k))

RECURSIVE SumFound(_)
SumFound(k) == IF k = 0 THEN 0 ELSE SumFound(k - 1) + reported[k].found

\* C7: whatever sources fail, no exception leaves the loop, every selected
\* source is fetched, a failing source contributes no record, and the
\* aggregate is exactly the records of the sources that did not fail.
C7_FailureIsolation ==
    /\ ~surfaced /\ pc # "crashed"
    /\ pc \in {"fetched", "no_results"} => Len(fetches) = Len(selected_journals)
    /\ pc = "fetching" => Len(fetches) = journal_i - 1
    /\ (fetches # <<>> /\ FetchFailed(EntryOutcomes))
          => /\ fetches[Len(fetches)].caught
             /\ fetches[Len(fetches)].papers = <<>>
    /\ \A k \in 1..Len(fetches) :
          fetches[k].caught =>
             \A i \in 1..Len(all_papers) :
                all_papers[i].source # selected_journals[k].name
    /\ all_papers = ConcatenationOfSound(Len(fetches))

\* a source whose feed could not be parsed and a source with three valid
\* entries: exactly three records, all of the second source
C7_Witness ==
    /\ pc = "fetched"
    /\ Len(selected_journals) = 2
    /\ fetches[1].caught /\ fetches[1].parsed_count = 0
    /\ ~fetches[2].caught /\ Len(fetches[2].papers) = 3
    /\ Len(all_papers) = 3
    /\ \A i \in 1..3 : all_papers[i].source = selected_journals[2].name

\* C8: the aggregate is the concatenation, in iteration order, of the lists
\* fetch_papers returned, each record stamped with the name and category of
\* its source; nothing is deduplicated, so its length is the sum of the
\* per-source counts.
C8_AggregateIsConcatenation ==
    /\ all_papers = Concatenation(Len(fetches))
    /\ Len(reported) = Len(fetches)
    /\ \A k \in 1..Len(reported) :
          /\ reported[k].journal = selected_journals[k].name
          /\ reported[k].found = Len(fetches[k].papers)
    /\ Len(all_papers) = SumFound(Len(reported))

\* two sources return the same link: both records are in the aggregate
C8_Witness ==
    /\ pc = "fetched"
    /\ Len(fetches) = 2
    /\ Len(all_papers) >= 2
    /\ \E i, j \in 1..Len(all_papers) :
          /\ i < j
          /\ all_papers[i].link = all_papers[j].link
          /\ all_papers[i].source = selected_journals[1].name
          /\ all_papers[j].source = selected_journals[2].name
          /\ all_papers[i].category # all_papers[j].category

----------------------------------------------------------------------------
(* app.py: what main does with the aggregate: keyword filter, session      *)
(* state, trend analysis                                                   *)

UpperCase ==
    <<"A", "B", "C", "D", "E", "F", "G", "H", "I", "J", "K", "L", "M",
      "N", "O", "P", "Q", "R", "S", "T", "U", "V", "W", "X", "Y", "Z">>

LowerCase ==
    <<"a", "b", "c", "d", "e", "f", "g", "h", "i", "j", "k", "l", "m",
      "n", "o", "p", "q", "r", "s", "t", "u", "v", "w", "x", "y", "z">>

\* the characters of a one-word string of the model
spell(c) ==
    IF c = "No abstract available"
    THEN <<"N", "o", " ", "a", "b", "s", "t", "r", "a", "c", "t", " ",
           "a", "v", "a", "i", "l", "a", "b", "l", "e">>
    ELSE <<c>>

\* a text of the model, character by character
RECURSIVE chars(_)
chars(s) == IF s = <<>> THEN <<>> ELSE spell(Head(s)) \o chars(Tail(s))

\* str.lower()
lower(s) ==
    [i \in 1..Len(s) |->
        IF \E k \in DOMAIN UpperCase : UpperCase[k] = s[i]
        THEN LowerCase[CHOOSE k \in DOMAIN UpperCase : UpperCase[k] = s[i]]
        ELSE s[i]]

\* str.split(sep)
RECURSIVE split(_, _)
split(s, sep) ==
    IF \A i \in 1..Len(s) : s[i] # sep THEN <<s>>
    ELSE LET i == CHOOSE i \in 1..Len(s) :
                      s[i] = sep /\ \A j \in 1..(i - 1) : s[j] # sep
         IN  <<SubSeq(s, 1, i - 1)>> \o split(SubSeq(s, i + 1, Len(s)), sep)

\* lines 327-329: kw = kw.strip().lower(); if kw: keywords.append(kw)
RECURSIVE append_keywords(_, _)
append_keywords(keywords, kws) ==
    IF kws = <<>> THEN keywords
    ELSE LET kw == lower(strip(Head(kws)))
         IN  append_keywords(IF kw # <<>> THEN Append(keywords, kw) ELSE keywords,
                             Tail(kws))

\* lines 325-326: the loop over the lines of the text area
RECURSIVE keywords_of_lines(_, _)
keywords_of_lines(keywords, lines) ==
    IF lines = <<>> THEN keywords
    ELSE keywords_of_lines(append_keywords(keywords, split(Head(lines), ",")),
                           Tail(lines))

\* lines 324-329: the keyword list of the text area's text
parse_keywords(text) == keywords_of_lines(<<>>, split(text, "\n"))

\* kw in text
contains(kw, text) ==
    \E i \in 0..(Len(text) - Len(kw)) : SubSeq(text, i + 1, i + Len(kw)) = kw

\* faulty variant: the paper's text is matched as it is written
PaperText_CaseSensitive(paper) ==
    chars(paper.title) \o <<" ">> \o chars(paper.abstract)

\* line 333: f"{paper.get('title', '')} {paper.get('abstract', '')}".lower()
PaperText(paper) ==
    lower(chars(paper.title) \o <<" ">> \o chars(paper.abstract))

\* lines 321-335: filtered_papers
filter_papers(papers, enable, text) ==
    IF enable /\ text # <<>>
    THEN LET keywords == parse_keywords(text)
         IN  SelectSeq(papers,
                       LAMBDA paper : \E k \in DOMAIN keywords :
                                         contains(keywords[k], PaperText(paper)))
    ELSE <<>>

\* lines 338-341: the results are stored
store_results(ss, papers, filtered, names, enable) ==
    [ss EXCEPT !.keys = @ \cup {"all_papers", "filtered_papers",
                                "selected_journals", "filter_enabled"},
               !.all_papers = papers,
               !.filtered_papers = filtered,
               !.selected_journals = names,
               !.filter_enabled = enable /\ Len(filtered) > 0]

\* what the trend analysis of one list can come to: the model's text, or the
\* text that reports a failed call
TrendOutcomes == {"Trends", "Trend analysis failed"}

\* TrendAnalyzer.analyze_trends(papers): a text about the papers it was given
analyze_trends(papers, outcome) ==
    [type |-> "str", val |-> <<outcome>>, about |-> papers]

\* faulty variant: without filtered papers trend_filtered is left as it was
store_trends_NoReset(ss, api_key, papers, filtered, o_all, o_filtered) ==
    IF api_key # <<>>
    THEN [ss EXCEPT !.keys = @ \cup {"trend_all", "trend_filtered"},
                    !.trend_all = analyze_trends(papers, o_all),
                    !.trend_filtered =
                        IF filtered # <<>>
                        THEN analyze_trends(filtered, o_filtered)
                        ELSE @]
    ELSE [ss EXCEPT !.keys = @ \cup {"trend_all", "trend_filtered"},
                    !.trend_all = NoneValue,
                    !.trend_filtered = NoneValue]

\* lines 344-361: the trend analyses are stored
store_trends(ss, api_key, papers, filtered, o_all, o_filtered) ==
    IF api_key # <<>>
    THEN [ss EXCEPT !.keys = @ \cup {"trend_all", "trend_filtered"},
                    !.trend_all = analyze_trends(papers, o_all),
                    !.trend_filtered =
                        IF filtered # <<>>
                        THEN analyze_trends(filtered, o_filtered)
                        ELSE NoneValue]
    ELSE [ss EXCEPT !.keys = @ \cup {"trend_all", "trend_filtered"},
                    !.trend_all = NoneValue,
                    !.trend_filtered = NoneValue]

\* the later stages a run goes through once the aggregate is not empty
StagesExecuted(api_key, filtered) ==
    {"filter", "store"}
    \cup (IF api_key # <<>> THEN {"trend_all"} ELSE {})
    \cup (IF api_key # <<>> /\ filtered # <<>> THEN {"trend_filtered"} ELSE {})

\* neither date nor abstract: accepted, with the sentinel abstract
EntryPlain ==
    MkEntry(Txt(<<"W">>), Txt(<<"Q">>), Absent, Absent, Absent, Absent, Absent)

\* the feed documents of the modelled runs: a failure, one paper, two papers
RunFeeds ==
    {[status |-> "raise", entries |-> <<>>],
     [status |-> "ok", entries |-> <<EntryRecent>>],
     [status |-> "ok", entries |-> <<EntryNoDate, EntryPlain>>]}

\* texts of the keyword area: two keywords over three lines, separators
\* only, one keyword of three characters
KeywordsTwo == <<"T", ",", " ", "x", "\n", "\n">>
KeywordsNone == <<" ", ",", "\n">>
KeywordsPhrase == <<"t", " ", "d">>

\* lines 235-250: the checkbox and, when it is ticked, the text area
FilterSettings ==
    {[enable |-> FALSE, keywords |-> <<>>]}
    \cup {[enable |-> TRUE, keywords |-> k] :
            k \in {<<>>, KeywordsTwo, KeywordsNone, KeywordsPhrase}}

\* get_secret("OLLAMA_API_KEY", ""): not configured, or configured
ApiKeys == {<<>>, <<"k">>}

InitRun ==
    /\ now = 0
    /\ months_back = 1
    /\ max_papers = Cap(10)
    /\ selected_journal_names \in (SUBSET get_journal_names) \ {{}}
    /\ \E fs \in FilterSettings :
          enable_focus_filter = fs.enable /\ filter_keywords = fs.keywords
    /\ ollama_api_key \in ApiKeys
    /\ session_state = NoSession
    /\ executed = {}
    /\ journal_i = 0
    /\ all_papers = <<>>
    /\ fetches = <<>>
    /\ reported = <<>>
    /\ surfaced = FALSE
    /\ ParseIdle
    /\ FetchIdle
    /\ StoreIdle
    /\ SummarizerIdle
    /\ pc = "idle"

\* lines 206-290: between two runs the user changes the journal selection and
\* the filter settings; the page is drawn again with what session_state holds
ChangeSettings ==
    /\ pc \in {"idle", "no_results", "done"}
    /\ selected_journal_names' \in (SUBSET get_journal_names) \ {{}}
    /\ \E fs \in FilterSettings :
          enable_focus_filter' = fs.enable /\ filter_keywords' = fs.keywords
    /\ pc' = "idle"
    /\ UNCHANGED <<now, months_back, max_papers, entry, parsed, feed, fetched,
                   journal_i, all_papers, fetches, reported, surfaced,
                   store_vars, summarizer_vars, ollama_api_key, session_state,
                   executed>>

FetchJournalRun == FetchJournalFrom(RunFeeds)

\* lines 320-361: the aggregate is filtered, the results are stored, the
\* trends are analysed and stored
ProcessResults ==
    /\ pc = "fetched"
    /\ \E o_all, o_filtered \in TrendOutcomes :
          LET filtered_papers ==
                  filter_papers(all_papers, enable_focus_filter, filter_keywords)
              stored ==
                  store_results(session_state, all_papers, filtered_papers,
                                selected_journal_names, enable_focus_filter)
          IN  /\ session_state' =
                     store_trends(stored, ollama_api_key, all_papers,
                                  filtered_papers, o_all, o_filtered)
              /\ executed' = StagesExecuted(ollama_api_key, filtered_papers)
    /\ pc' = "done"
    /\ UNCHANGED <<inputs, feed, fetched, loop_vars>>

NextRun ==
    \/ ChangeSettings
    \/ PressFetch
    \/ FetchJournalRun
    \/ NoPapersFound
    \/ FetchComplete
    \/ ProcessResults

SpecRun == InitRun /\ [][NextRun]_vars

----------------------------------------------------------------------------
(* Properties of the runs (checked under SpecRun) *)

\* C15: the "no results" state is entered exactly when the fetch loop over all
\* the selected journals ends with an empty aggregate; the run stops there:
\* neither it nor any later step before the next run filters, stores or
\* analyses anything.
C15_NoResultsStopsRun ==
    /\ [](/\ pc = "no_results"
              => /\ all_papers = <<>>
                 /\ Len(fetches) = Len(selected_journals)
                 /\ executed = {}
          /\ pc \in {"fetched", "done"}
              => /\ all_papers # <<>>
                 /\ Len(fetches) = Len(selected_journals)
          /\ executed # {} => all_papers # <<>>)
    /\ [][/\ (pc = "fetching" /\ pc' # "fetching")
              => (pc' = "no_results" <=> all_papers = <<>>)
          /\ pc = "no_results"
              => /\ session_state' = session_state
                 /\ executed' = executed
                 /\ pc' = "idle"]_vars

\* both journals fetched and nothing found, with the filter on, keywords
\* given, an API key configured and results of an earlier run in the session
C15_Witness ==
    /\ pc = "no_results"
    /\ Len(fetches) = 2
    /\ enable_focus_filter /\ filter_keywords = KeywordsTwo
    /\ ollama_api_key # <<>>
    /\ session_state.trend_all # NoneValue
    /\ executed = {}

SessionKeys ==
    {"all_papers", "filtered_papers", "selected_journals", "filter_enabled",
     "trend_all", "trend_filtered"}

LoweredTitleAndAbstract(p) ==
    lower(chars(p.title) \o <<" ">> \o chars(p.abstract))

----------------------------------------------------------------------------
(* core/storage.py: PaperStorage, the deduplication store.  Rows are kept *)
(* in insertion order, as a table or a JSON list keeps them.               *)

\* the links used as keys
Links == {"L", "M", "N"}

SummaryTexts == {<<"s1">>, <<"s2">>}

\* the positions of the rows stored under key
RowsOf(rows, key) == {i \in 1..Len(rows) : rows[i].key = key}

\* isProcessed(key)
is_processed(rows, key) == RowsOf(rows, key) # {}

\* count()
count(rows) == Len(rows)

\* faulty variant: add inserts a new row whatever is stored
add_Insert(rows, key, title, journal, summary) ==
    Append(rows, [key |-> key, title |-> title, journalName |-> journal,
                  summaryText |-> summary])

\* add(key, title, journal, summary): an upsert
add(rows, key, title, journal, summary) ==
    LET row == [key |-> key, title |-> title, journalName |-> journal,
                summaryText |-> summary]
    IN  IF is_processed(rows, key)
        THEN [i \in 1..Len(rows) |-> IF rows[i].key = key THEN row ELSE rows[i]]
        ELSE Append(rows, row)

\* clear()
clear(rows) == <<>>

InitStore ==
    /\ now = 0
    /\ months_back = 1
    /\ max_papers = NoCap
    /\ storage = <<>>
    /\ last_op = NoOp
    /\ ParseIdle
    /\ FetchIdle
    /\ LoopIdle
    /\ SummarizerIdle
    /\ RunIdle
    /\ pc = "store"

not_store_vars ==
    <<now, months_back, max_papers, entry, parsed, feed, fetched, loop_vars,
      summarizer_vars, run_vars, pc>>

Add ==
    \E key \in Links, summary \in SummaryTexts :
        /\ storage' = add(storage, key, <<"T">>, JOURNALS[1].name, summary)
        /\ last_op' = [op |-> "add", key |-> key,
                       was_processed |-> is_processed(storage, key),
                       count_before |-> count(storage)]
        /\ UNCHANGED not_store_vars

IsProcessed ==
    \E key \in Links :
        /\ last_op' = [op |-> "isProcessed", key |-> key,
                       result |-> is_processed(storage, key)]
        /\ UNCHANGED <<storage, not_store_vars>>

Count ==
    /\ last_op' = [op |-> "count", result |-> count(storage)]
    /\ UNCHANGED <<storage, not_store_vars>>

Clear ==
    /\ storage' = clear(storage)
    /\ last_op' = [op |-> "clear", keys_before |-> {storage[i].key : i \in 1..Len(storage)}]
    /\ UNCHANGED not_store_vars

NextStore == Add \/ IsProcessed \/ Count \/ Clear

SpecStore == InitStore /\ [][NextStore]_vars

\* C9: after add(key, ...) isProcessed(key) is true; an add of a key that
\* was already stored leaves count() unchanged; there is never more than
\* one record per key.
C9_UpsertIdempotent ==
    /\ \A key \in Links : Cardinality(RowsOf(storage, key)) <= 1
    /\ last_op.op = "add" =>
          /\ is_processed(storage, last_op.key)
          /\ last_op.was_processed => count(storage) = last_op.count_before
          /\ ~last_op.was_processed => count(storage) = last_op.count_before + 1
    /\ last_op.op = "isProcessed" =>
          (last_op.result <=> \E i \in 1..Len(storage) : storage[i].key = last_op.key)

\* a key is added a second time, with another summary, while a second key is
\* stored: two rows before, two rows after, the row rewritten
C9_Witness ==
    /\ last_op.op = "add"
    /\ last_op.was_processed
    /\ last_op.count_before = 2
    /\ count(storage) = 2
    /\ storage[1].key = last_op.key
    /\ storage[1].summaryText = <<"s2">>

----------------------------------------------------------------------------
(* core/summarizer.py: PaperSummarizer.summarize *)

\* the most papers handed to the summarizer in a modelled batch
MaxBatch == 3

\* the (title, abstract) pairs handed to the summarizer
SummarizerInputs ==
    {[title |-> <<"T">>, abstract |-> <<"D">>],
     [title |-> <<"U">>, abstract |-> <<"No abstract available">>]}

\* self.client.chat(...): a response with the content, a response without
\* it, or an exception of the client
ChatOutcomes ==
    {[kind |-> "response", keys |-> {"message", "content"}, error |-> ""],
     [kind |-> "response", keys |-> {"message"}, error |-> "'content'"],
     [kind |-> "response", keys |-> {}, error |-> "'message'"],
     [kind |-> "raise", keys |-> {}, error |-> "ConnectionError"]}

\* lines 61-74: the prompt is built from the title and the abstract
build_prompt(title, abstract) == <<"Title: ">> \o title \o <<"Abstract: ">> \o abstract

\* lines 50-55: the try block: the chat call and response['message']['content']
summarize_try(prompt, chat) ==
    IF chat.kind = "response" /\ {"message", "content"} \subseteq chat.keys
    THEN [raised |-> FALSE, value |-> <<"Summary of: ">> \o prompt, error |-> ""]
    ELSE [raised |-> TRUE, value |-> <<>>, error |-> chat.error]

\* faulty variant: no handler, the exception leaves summarize
summarize_except_Missing(r) == r

\* lines 57-59: except Exception: log, return the failure text
summarize_except(r) ==
    IF r.raised
    THEN [raised |-> FALSE, value |-> <<"Summarization failed: ", r.error>>,
          error |-> r.error]
    ELSE r

\* lines 36-59: summarize(title, abstract), given what the chat call does
summarize(title, abstract, chat) ==
    summarize_except(summarize_try(build_prompt(title, abstract), chat))

InitSummarizer ==
    /\ now = 0
    /\ months_back = 1
    /\ max_papers = NoCap
    /\ queue \in SeqsUpTo(SummarizerInputs, MaxBatch)
    /\ chats = <<>>
    /\ summaries = <<>>
    /\ summarize_raised = FALSE
    /\ ParseIdle
    /\ FetchIdle
    /\ LoopIdle
    /\ StoreIdle
    /\ RunIdle
    /\ pc = "summarizing"

\* the caller summarizes the next paper of the batch; an exception that
\* leaves summarize ends the batch
SummarizeNext ==
    /\ pc = "summarizing"
    /\ Len(summaries) < Len(queue)
    /\ \E chat \in ChatOutcomes :
          LET paper == queue[Len(summaries) + 1]
              r == summarize(paper.title, paper.abstract, chat)
          IN  /\ chats' = Append(chats, chat)
              /\ IF r.raised
                 THEN /\ summarize_raised' = TRUE
                      /\ pc' = "crashed"
                      /\ UNCHANGED summaries
                 ELSE /\ summaries' = Append(summaries, r.value)
                      /\ UNCHANGED <<summarize_raised, pc>>
    /\ UNCHANGED <<now, months_back, max_papers, entry, parsed, feed, fetched,
                   loop_vars, store_vars, queue, run_vars>>

\* every paper of the batch has its summary
BatchDone ==
    /\ pc = "summarizing"
    /\ Len(summaries) = Len(queue)
    /\ pc' = "summarized"
    /\ UNCHANGED <<now, months_back, max_papers, entry, parsed, feed, fetched,
                   loop_vars, store_vars, summarizer_vars, run_vars>>

NextSummarizer == SummarizeNext \/ BatchDone

SpecSummarizer == InitSummarizer /\ [][NextSummarizer]_vars

\* the chat call of the k-th summarize call failed
ChatFailed(k) ==
    chats[k].kind = "raise" \/ ~({"message", "content"} \subseteq chats[k].keys)

\* C10: summarize never raises; when the LLM call fails it returns a failure
\* text in the normal return channel, so every call made so far has returned
\* and the papers after a failed one are still summarized.
C10_SummarizeNeverRaises ==
    /\ ~summarize_raised /\ pc # "crashed"
    /\ Len(summaries) = Len(chats)
    /\ \A k \in 1..Len(summaries) :
          /\ ChatFailed(k) =>
                /\ Len(summaries[k]) = 2
                /\ summaries[k][1] = "Summarization failed: "
                /\ summaries[k][2] = chats[k].error
          /\ ~ChatFailed(k) => summaries[k][1] = "Summary of: "
    /\ pc = "summarized" => Len(summaries) = Len(queue)

\* the first call fails, the second paper is summarized all the same
C10_Witness ==
    /\ pc = "summarized"
    /\ Len(queue) >= 2
    /\ chats[1].kind = "raise"
    /\ summaries[1][1] = "Summarization failed: "
    /\ ~ChatFailed(2)
    /\ summaries[2][1] = "Summary of: "

====
